---- MODULE Spec2Model ----
(***************************************************************************)
(* Offline-first synchronisation core of the xpens finance tracker:        *)
(* the local store (AsyncStorage documents), the remote transactions       *)
(* table, the merge engine and the sync orchestrator of AppProvider.       *)
(***************************************************************************)
EXTENDS Integers, Sequences, FiniteSets, TLC

\* ------------------------------------------------------------ bounds ----

\* the two argument lists handed to mergeTransactions in SpecMerge hold at
\* most this many records together
MergeMaxTotal == 3
\* update timestamps are drawn from 1..MaxTime
MaxTime == 2
\* mutation entry-point invocations that may be in flight together on a device
MaxTasks == 2
\* mutation entry-point invocations per device in one behaviour
MaxCalls == 2
\* clock ticks (of half a cooldown interval each) in one behaviour
MaxTicks == 2
\* removeTransaction invocations that may be in flight together in SpecPass
MaxPassTasks == 1
\* upsertSupabaseUser calls that may be in flight together on a device
MaxResolving == 2
\* entry-point invocations of a session of SpecEntry
MaxEntryCalls == 1
\* transactions in a list handed to computeAccountBalance
MaxBalanceLen == 2
\* bits of the significand of a number: a JS number has 53, the model keeps
\* the rounding of every sum to the significand and scales its width down
SignificandBits == 3

\* ------------------------------------------------------- data model ----

TxIds == {"t1", "t2"}
Amounts == {50, 75}
TimeStamps == 1..MaxTime

Undefined == "undefined"
Null == "null"
OwnerId == "sb-user-1"

\* a Transaction (types.ts); the fields the sync core reads or carries
Transaction(id, amount, updatedAt) ==
  [id |-> id, type |-> "expense", amount |-> amount, accountId |-> "acc-cash",
   toAccountId |-> Undefined, updatedAt |-> updatedAt]

AllTx == {Transaction(i, a, u) : i \in TxIds, a \in Amounts, u \in TimeStamps}

AccountIds == {"acc-cash", "acc-bank"}

\* an Account (types.ts); the fields computeAccountBalance reads
Account(id, initialBalance) == [id |-> id, initialBalance |-> initialBalance]

\* the accounts a first start writes: the cash and the bank account
DEFAULT_ACCOUNTS == <<Account("acc-cash", 500), Account("acc-bank", 2000)>>

\* the updatedAt of a record that carries none (undefined, or null in a row)
NoStamp == 0

\* records as parsed from a document or a row written without updatedAt
LegacyTx == {Transaction(i, a, NoStamp) : i \in TxIds, a \in Amounts}

\* all sequences over S of length at most n
SeqsUpTo(S, n) == UNION {[1..k -> S] : k \in 0..n}

Range(s) == {s[i] : i \in 1..Len(s)}

IdsOf(txs) == {txs[i].id : i \in 1..Len(txs)}

\* Array.prototype.findIndex by id, 0 when absent
FindIndex(txs, id) ==
  IF \E i \in 1..Len(txs) : txs[i].id = id
  THEN CHOOSE i \in 1..Len(txs) :
         txs[i].id = id /\ \A j \in 1..(i - 1) : txs[j].id # id
  ELSE 0

\* ----------------------------------------------------- merge engine ----

\* the comparison tx.updatedAt >= existing.updatedAt
TsRemoteWinsStrict(rts, lts) == rts > lts

TsRemoteWinsAlways(rts, lts) == TRUE

TsRemoteWinsNever(rts, lts) == FALSE

\* a relational comparison with undefined or null on a side is false
TsRemoteWins(rts, lts) == rts # NoStamp /\ lts # NoStamp /\ rts >= lts

\* Map.prototype.set on an insertion-ordered map kept as a sequence
MapSetAppending(map, tx) == Append(map, tx)

MapSet(map, tx) ==
  LET i == FindIndex(map, tx.id)
  IN IF i > 0 THEN [map EXCEPT ![i] = tx] ELSE Append(map, tx)

\* for (const tx of local) map.set(tx.id, tx)
RECURSIVE SeedLocal(_, _)
SeedLocal(map, local) ==
  IF local = <<>> THEN map
  ELSE SeedLocal(MapSet(map, Head(local)), Tail(local))

\* for (const tx of remote) { ... if (!existing || tx.updatedAt >= ...) set }
RECURSIVE FoldRemote(_, _)
FoldRemote(map, rem) ==
  IF rem = <<>> THEN map
  ELSE LET tx == Head(rem)
           i == FindIndex(map, tx.id)
       IN FoldRemote(
            IF i = 0 \/ TsRemoteWins(tx.updatedAt, map[i].updatedAt)
            THEN MapSet(map, tx) ELSE map,
            Tail(rem))

mergeTransactionsRemoteOnly(local, rem) == FoldRemote(<<>>, rem)

mergeTransactions(local, rem) == FoldRemote(SeedLocal(<<>>, local), rem)

\* --------------------------------------------------- local store ----

\* saveTransaction: upsert by id into the list read before
SaveInto(txs, tx) ==
  LET i == FindIndex(txs, tx.id)
  IN IF i > 0 THEN [txs EXCEPT ![i] = tx] ELSE Append(txs, tx)

\* deleteTransaction: filter the list read before
DeleteFrom(txs, id) == SelectSeq(txs, LAMBDA t : t.id # id)

\* addPendingDelete: the list written, given the list read before
EnqueueIntoNothing(ids, id) == ids

EnqueueInto(ids, id) == IF id \in Range(ids) THEN ids ELSE Append(ids, id)

\* ids.filter(i => i !== id)
Without(ids, id) == SelectSeq(ids, LAMBDA i : i # id)

\* ------------------------------------------------ remote transport ----

\* toRow: the columns of a transactions row
toRow(tx, userId) ==
  [id |-> tx.id, user_id |-> userId, type |-> tx.type, amount |-> tx.amount,
   account_id |-> tx.accountId,
   to_account_id |-> IF tx.toAccountId = Undefined THEN Null ELSE tx.toAccountId,
   updated_at |-> tx.updatedAt]

\* fromRow
fromRow(row) ==
  [id |-> row.id, type |-> row.type, amount |-> row.amount,
   accountId |-> IF row.account_id = Null THEN "" ELSE row.account_id,
   toAccountId |-> IF row.to_account_id = Null THEN Undefined ELSE row.to_account_id,
   updatedAt |-> row.updated_at]

\* upsert(rows, { onConflict: 'id' }): a row replaces the stored row of its id
UpsertRows(table, rows) ==
  {r \in table : \A n \in rows : n.id # r.id} \cup rows

\* delete().eq('id', id) and delete().in('id', ids)
DeleteRows(table, ids) == {r \in table : r.id \notin ids}

\* the orders in which a select may return a set of rows
Orderings(S) ==
  {s \in [1..Cardinality(S) -> S] : \A i, j \in 1..Cardinality(S) : i # j => s[i] # s[j]}

\* select('*').eq('user_id', id), each row through fromRow
FetchResults(table, userId) ==
  Orderings({fromRow(r) : r \in {x \in table : x.user_id = userId}})

\* how a remote call can go: the request is carried out, or it fails. The
\* functions of supabase-sync.ts log the client's error and resolve;
\* deleteRemoteTransactionsBatch throws
Transport == {"ok", "fail"}

\* ------------------------------------------------------------ state ----

Devices == {"A", "B"}

SYNC_COOLDOWN_MS == 2 * 60 * 1000
TickMs == SYNC_COOLDOWN_MS \div 2
\* Date.now() at the start of a session: far more than a cooldown after 0
StartMs == SYNC_COOLDOWN_MS

NoOwner == "none"

VARIABLES
  store,      \* AsyncStorage document mymoney_transactions, per device
  queue,      \* AsyncStorage document mymoney_pending_deletes, per device
  mem,        \* state.transactions of the reducer
  loading,    \* state.loading
  auth,       \* authLoaded && userId && user: an external identity is there
  resolving,  \* upsertSupabaseUser calls in flight
  sbUserId,   \* sbUserIdRef.current
  isSyncing,  \* isSyncingRef.current
  lastSyncAt, \* lastSyncAtRef.current
  sync,       \* the performSync invocation: position and locals
  tasks,      \* mutation entry-point invocations in flight: position and locals
  calls,      \* mutation entry-point invocations so far
  failed,     \* the finished invocations whose remote call failed
  remote,     \* rows of the remote transactions table
  now,        \* Date.now()
  pureCall,   \* one call of a pure function (mergeTransactions,
              \* computeAccountBalance): its arguments and result
  acctStore,  \* AsyncStorage document mymoney_accounts, per device
  acctMem     \* state.accounts of the reducer

vars == <<store, queue, mem, loading, auth, resolving, sbUserId,
          isSyncing, lastSyncAt, sync, tasks, calls, failed, remote, now, pureCall,
          acctStore, acctMem>>

deviceVars == <<store, queue, mem, loading, auth, resolving, sbUserId,
                isSyncing, lastSyncAt, sync, tasks, calls, failed, remote, now,
                acctStore, acctMem>>

NoTx == [id |-> "", type |-> "", amount |-> 0, accountId |-> "",
         toAccountId |-> Undefined, updatedAt |-> 0]

\* an entry-point invocation: n numbers the invocations of a device, txs,
\* ids and rest are its locals, live is how its remote call went, local how
\* its write of the stored list went, returned whether the promise of the
\* entry point has settled
NewTask == [n |-> 0, kind |-> "", pc |-> "", id |-> "", tx |-> NoTx,
            txs |-> <<>>, ids |-> <<>>, rest |-> <<>>, accounts |-> <<>>,
            live |-> "none", local |-> "none", returned |-> FALSE]

\* batch is how the batch delete of the pass went, pull how its select went,
\* cleared is the queue its clearPendingDeletes wiped, remoteAtStart is the
\* remote table as it was when the pass started
IdleSync == [pc |-> "idle", localTx |-> <<>>, pendingDeletes |-> <<>>,
             remoteTx |-> <<>>, merged |-> <<>>, batch |-> "none",
             pull |-> "none", cleared |-> <<>>, remoteAtStart |-> {}]

NoMerge == [local |-> <<>>, remote |-> <<>>, returned |-> FALSE, result |-> <<>>]

\* ------------------------------------------- session life cycle ----

\* the sign-in effect: with an identity, the load done and no owner id yet,
\* it calls upsertSupabaseUser
EffectStartsWhileLoading(d, hasAuth, isLoading) ==
  hasAuth /\ sbUserId[d] = NoOwner

EffectStarts(d, hasAuth, isLoading) ==
  hasAuth /\ ~isLoading /\ sbUserId[d] = NoOwner

RunEffect(d, hasAuth, isLoading) ==
  resolving' = [resolving EXCEPT
    ![d] = IF EffectStarts(d, hasAuth, isLoading) THEN @ + 1 ELSE @]

\* performSync up to its first await: the guard, the flag, the reads
PerformSyncUnguarded(d) ==
  /\ isSyncing' = [isSyncing EXCEPT ![d] = TRUE]
  /\ sync' = [sync EXCEPT ![d] = [IdleSync EXCEPT !.pc = "push",
                                                  !.localTx = store[d],
                                                  !.remoteAtStart = remote]]

PerformSync(d) ==
  IF isSyncing[d]
  THEN UNCHANGED <<isSyncing, sync>>
  ELSE /\ isSyncing' = [isSyncing EXCEPT ![d] = TRUE]
       /\ sync' = [sync EXCEPT ![d] = [IdleSync EXCEPT !.pc = "push",
                                                       !.localTx = store[d],
                                                       !.remoteAtStart = remote]]

\* loadAll, run by the mount effect: read the collections, SET_ALL
LoadAll(d) ==
  /\ loading[d]
  /\ mem' = [mem EXCEPT ![d] = store[d]]
  /\ acctMem' = [acctMem EXCEPT ![d] = acctStore[d]]
  /\ loading' = [loading EXCEPT ![d] = FALSE]
  /\ RunEffect(d, auth[d], FALSE)
  /\ UNCHANGED <<store, queue, auth, sbUserId, isSyncing, lastSyncAt, sync,
                 tasks, calls, failed, remote, now, pureCall, acctStore>>

\* the identity provider hands over the signed-in user
SignIn(d) ==
  /\ ~auth[d]
  /\ auth' = [auth EXCEPT ![d] = TRUE]
  /\ RunEffect(d, TRUE, loading[d])
  /\ UNCHANGED <<store, queue, mem, loading, sbUserId, isSyncing, lastSyncAt,
                 sync, tasks, calls, failed, remote, now, pureCall, acctStore, acctMem>>

\* the identity provider hands over a new user object for the identity that
\* is signed in: a dependency of the sign-in effect changed, it runs again
UserChange(d) ==
  /\ auth[d]
  /\ resolving[d] < MaxResolving
  /\ RunEffect(d, TRUE, loading[d])
  /\ UNCHANGED <<store, queue, mem, loading, auth, sbUserId, isSyncing, lastSyncAt,
                 sync, tasks, calls, failed, remote, now, pureCall, acctStore, acctMem>>

\* the mark a resolution that yielded no owner id leaves in failed
NoOwnerYielded == [kind |-> "resolve", id |-> ""]

\* initialSync after upsertSupabaseUser came back: an owner id, or null
ResolveOwner(d, cs) ==
  /\ resolving[d] > 0
  /\ resolving' = [resolving EXCEPT ![d] = @ - 1]
  /\ \E o \in cs :
       IF o = "ok"
       THEN /\ sbUserId' = [sbUserId EXCEPT ![d] = OwnerId]
            /\ PerformSync(d)
            /\ UNCHANGED failed
       ELSE /\ failed' = [failed EXCEPT ![d] = @ \cup {NoOwnerYielded}]
            /\ UNCHANGED <<sbUserId, isSyncing, sync>>
  /\ UNCHANGED <<store, queue, mem, loading, auth, lastSyncAt, tasks, calls,
                 remote, now, pureCall, acctStore, acctMem>>

\* time passes
Tick ==
  /\ now < StartMs + MaxTicks * TickMs
  /\ now' = now + TickMs
  /\ UNCHANGED <<store, queue, mem, loading, auth, resolving, sbUserId, isSyncing,
                 lastSyncAt, sync, tasks, calls, failed, remote, pureCall, acctStore, acctMem>>

\* the AppState listener's test before it calls performSync
ForegroundSyncsWithoutCooldown(d) == sbUserId[d] # NoOwner

ForegroundSyncs(d) ==
  sbUserId[d] # NoOwner /\ ~(now - lastSyncAt[d] < SYNC_COOLDOWN_MS)

\* the application became active
Foreground(d) ==
  /\ IF ForegroundSyncs(d) THEN PerformSync(d) ELSE UNCHANGED <<isSyncing, sync>>
  /\ UNCHANGED <<store, queue, mem, loading, auth, resolving, sbUserId,
                 lastSyncAt, tasks, calls, failed, remote, now, pureCall, acctStore, acctMem>>

\* ------------------------------------------------- the sync pass ----

\* the pass ends: finally { isSyncingRef.current = false }
EndSyncKeepingFlag(d, rec) ==
  /\ UNCHANGED isSyncing
  /\ sync' = [sync EXCEPT ![d] = rec]

EndSync(d, rec) ==
  /\ isSyncing' = [isSyncing EXCEPT ![d] = FALSE]
  /\ sync' = [sync EXCEPT ![d] = rec]

\* 1. pushTransactionsBatch(localTx) comes back; getPendingDeletes is issued
SyncPush(d, cs) ==
  /\ sync[d].pc = "push"
  /\ \E o \in cs :
       remote' = IF o = "ok" /\ sync[d].localTx # <<>>
                 THEN UpsertRows(remote, {toRow(t, OwnerId) : t \in Range(sync[d].localTx)})
                 ELSE remote
  /\ sync' = [sync EXCEPT ![d].pc = "getPending"]
  /\ UNCHANGED <<store, queue, mem, loading, auth, resolving, sbUserId, isSyncing,
                 lastSyncAt, tasks, calls, failed, now, pureCall, acctStore, acctMem>>

\* where the pass goes once the queue has been read
AfterGetPendingSkipFlush(ids) == "fetch"

AfterGetPending(ids) == IF Len(ids) > 0 THEN "deleteBatch" ELSE "fetch"

\* 2. getPendingDeletes comes back
SyncGetPending(d) ==
  /\ sync[d].pc = "getPending"
  /\ sync' = [sync EXCEPT ![d].pendingDeletes = queue[d],
                          ![d].pc = AfterGetPending(queue[d])]
  /\ UNCHANGED <<store, queue, mem, loading, auth, resolving, sbUserId, isSyncing,
                 lastSyncAt, tasks, calls, failed, remote, now, pureCall, acctStore, acctMem>>

\* where the pass goes once the batch delete has come back: an awaited call
\* that throws leaves the try block
AfterDeleteBatchIgnoringThrow(o) == "clear"

AfterDeleteBatch(o) == IF o = "ok" THEN "clear" ELSE "idle"

\* deleteRemoteTransactionsBatch(pendingDeletes) comes back
SyncDeleteBatch(d, cs) ==
  /\ sync[d].pc = "deleteBatch"
  /\ \E o \in cs :
       /\ remote' = IF o = "ok"
                    THEN DeleteRows(remote, Range(sync[d].pendingDeletes))
                    ELSE remote
       /\ IF AfterDeleteBatch(o) = "idle"
          THEN EndSync(d, [IdleSync EXCEPT !.batch = o])
          ELSE /\ sync' = [sync EXCEPT ![d].pc = AfterDeleteBatch(o), ![d].batch = o]
               /\ UNCHANGED isSyncing
  /\ UNCHANGED <<store, queue, mem, loading, auth, resolving, sbUserId,
                 lastSyncAt, tasks, calls, failed, now, pureCall, acctStore, acctMem>>

\* clearPendingDeletes comes back; fetchRemoteTransactions is issued
SyncClear(d) ==
  /\ sync[d].pc = "clear"
  /\ queue' = [queue EXCEPT ![d] = <<>>]
  /\ sync' = [sync EXCEPT ![d].pc = "fetch", ![d].cleared = queue[d]]
  /\ UNCHANGED <<store, mem, loading, auth, resolving, sbUserId, isSyncing,
                 lastSyncAt, tasks, calls, failed, remote, now, pureCall, acctStore, acctMem>>

\* what fetchRemoteTransactions can resolve to when its select went as o: the
\* rows in some order, or [] on an error
fetchRemoteTransactionsRowsAnyway(table, userId, o) == FetchResults(table, userId)

fetchRemoteTransactions(table, userId, o) ==
  IF o = "ok" THEN FetchResults(table, userId) ELSE {<<>>}

\* 3. fetchRemoteTransactions comes back: the rows, or [] on an error;
\* the merge; setTransactions(merged) is issued
SyncFetch(d, cs) ==
  /\ sync[d].pc = "fetch"
  /\ \E o \in cs :
       \E remoteTx \in fetchRemoteTransactions(remote, OwnerId, o) :
         sync' = [sync EXCEPT ![d].pc = "persist",
                              ![d].pull = o,
                              ![d].remoteTx = remoteTx,
                              ![d].merged = mergeTransactions(sync[d].localTx, remoteTx)]
  /\ UNCHANGED <<store, queue, mem, loading, auth, resolving, sbUserId, isSyncing,
                 lastSyncAt, tasks, calls, failed, remote, now, pureCall, acctStore, acctMem>>

\* setTransactions comes back; SET_TRANSACTIONS; lastSyncAt; finally
SyncPersist(d) ==
  /\ sync[d].pc = "persist"
  /\ store' = [store EXCEPT ![d] = sync[d].merged]
  /\ mem' = [mem EXCEPT ![d] = sync[d].merged]
  /\ lastSyncAt' = [lastSyncAt EXCEPT ![d] = now]
  /\ EndSync(d, IdleSync)
  /\ UNCHANGED <<queue, loading, auth, resolving, sbUserId, tasks, calls, failed,
                 remote, now, pureCall, acctStore, acctMem>>

\* ------------------------------------------ mutation entry points ----

\* an entry point is invoked and runs to its first await, the read of the
\* stored list inside saveTransaction or deleteTransaction
Invoke(d, rec) ==
  /\ calls[d] < MaxCalls
  /\ Cardinality(tasks[d]) < MaxTasks
  /\ tasks' = [tasks EXCEPT ![d] = @ \cup {[rec EXCEPT !.n = calls[d] + 1]}]
  /\ calls' = [calls EXCEPT ![d] = @ + 1]
  /\ UNCHANGED <<store, queue, mem, loading, auth, resolving, sbUserId, isSyncing,
                 lastSyncAt, sync, failed, remote, now, pureCall, acctStore, acctMem>>

\* addTransaction(tx): the form hands over a record with a fresh id
AddTransaction(d) ==
  \E tx \in AllTx :
    /\ tx.id \notin IdsOf(mem[d])
    /\ Invoke(d, [NewTask EXCEPT !.kind = "add", !.pc = "saveWrite",
                                 !.id = tx.id, !.tx = tx, !.txs = store[d]])

\* updateTransaction(tx): the form hands over an edited copy of a listed
\* record, stamped with the time of the edit
UpdateTransaction(d) ==
  \E tx \in AllTx :
    /\ \E i \in 1..Len(mem[d]) :
         /\ mem[d][i].id = tx.id /\ mem[d][i] # tx
         /\ tx.updatedAt >= mem[d][i].updatedAt
    /\ Invoke(d, [NewTask EXCEPT !.kind = "update", !.pc = "saveWrite",
                                 !.id = tx.id, !.tx = tx, !.txs = store[d]])

\* removeTransaction(id) of a listed record
RemoveTransaction(d) ==
  \E id \in IdsOf(mem[d]) :
    Invoke(d, [NewTask EXCEPT !.kind = "remove", !.pc = "delWrite",
                              !.id = id, !.txs = store[d]])

\* the invocation t goes on as rec
Continue(d, t, rec) == tasks' = [tasks EXCEPT ![d] = (@ \ {t}) \cup {rec}]

\* the invocation t and its background continuation have finished; a remote
\* call of it that failed is remembered
SettleWith(d, t, live) ==
  /\ tasks' = [tasks EXCEPT ![d] = @ \ {t}]
  /\ failed' = [failed EXCEPT
       ![d] = IF live = "fail" THEN @ \cup {[kind |-> t.kind, id |-> t.id]} ELSE @]

Settle(d, t) == SettleWith(d, t, t.live)

\* the test of sbUserIdRef.current an entry point makes after its local
\* write: without an owner id nothing goes to the remote side
GuestModeNever(d) == FALSE

GuestMode(d) == sbUserId[d] = NoOwner

\* whether an entry point awaits the remote call it issues: pushTransaction
\* and deleteRemoteTransaction are called without await
AwaitsRemoteAlways(kind) == TRUE

AwaitsRemote(kind) == FALSE

\* reducer, UPSERT_TRANSACTION
UpsertTransaction(txs, tx) ==
  LET i == FindIndex(txs, tx.id)
  IN IF i > 0 THEN [txs EXCEPT ![i] = tx] ELSE Append(txs, tx)

\* saveTransaction writes the list; UPSERT_TRANSACTION; with an owner id
\* the lookups for the push are issued
SaveWrite(d, t) ==
  /\ t.pc = "saveWrite"
  /\ store' = [store EXCEPT ![d] = SaveInto(t.txs, t.tx)]
  /\ mem' = [mem EXCEPT ![d] = UpsertTransaction(mem[d], t.tx)]
  /\ IF GuestMode(d) THEN Settle(d, t)
     ELSE Continue(d, t, [t EXCEPT !.pc = "lookup", !.txs = <<>>]) /\ UNCHANGED failed
  /\ UNCHANGED <<queue, loading, auth, resolving, sbUserId, isSyncing, lastSyncAt,
                 sync, calls, remote, now, pureCall, acctStore, acctMem>>

\* where an entry point goes when its local write rejects: the await is in
\* no try block, the entry point rejects with it
AfterFailedWriteSwallowed(kind) == IF kind = "remove" THEN "enqRead" ELSE "lookup"

AfterFailedWrite(kind) == "rejected"

\* AsyncStorage.setItem of saveTransaction or deleteTransaction rejects: the
\* stored list stays as it was
LocalWriteFails(d, t) ==
  /\ t.pc \in {"saveWrite", "delWrite"}
  /\ Continue(d, t, [t EXCEPT !.pc = AfterFailedWrite(t.kind), !.local = "fail",
                               !.txs = <<>>, !.returned = TRUE])
  /\ UNCHANGED <<store, queue, mem, loading, auth, resolving, sbUserId, isSyncing,
                 lastSyncAt, sync, calls, failed, remote, now, pureCall, acctStore, acctMem>>

\* getCategories and getAccounts come back; pushTransaction is issued and
\* the entry point returns
Lookup(d, t) ==
  /\ t.pc = "lookup"
  /\ Continue(d, t, [t EXCEPT !.pc = "push", !.returned = ~AwaitsRemote(t.kind)])
  /\ UNCHANGED <<store, queue, mem, loading, auth, resolving, sbUserId, isSyncing,
                 lastSyncAt, sync, calls, failed, remote, now, pureCall, acctStore, acctMem>>

\* pushTransaction comes back
Push(d, t, cs) ==
  /\ t.pc = "push"
  /\ \E o \in cs :
       /\ remote' = IF o = "ok" THEN UpsertRows(remote, {toRow(t.tx, OwnerId)})
                    ELSE remote
       /\ SettleWith(d, t, o)
  /\ UNCHANGED <<store, queue, mem, loading, auth, resolving, sbUserId, isSyncing,
                 lastSyncAt, sync, calls, now, pureCall, acctStore, acctMem>>

\* deleteTransaction writes the list; DELETE_TRANSACTION; with an owner id
\* addPendingDelete is called and reads the queue
DelWrite(d, t) ==
  /\ t.pc = "delWrite"
  /\ store' = [store EXCEPT ![d] = DeleteFrom(t.txs, t.id)]
  /\ mem' = [mem EXCEPT ![d] = DeleteFrom(mem[d], t.id)]
  /\ IF GuestMode(d) THEN Settle(d, t)
     ELSE Continue(d, t, [t EXCEPT !.pc = "enqRead", !.txs = <<>>]) /\ UNCHANGED failed
  /\ UNCHANGED <<queue, loading, auth, resolving, sbUserId, isSyncing, lastSyncAt,
                 sync, calls, remote, now, pureCall, acctStore, acctMem>>

\* addPendingDelete read the queue: it writes unless the id is there
EnqRead(d, t) ==
  /\ t.pc = "enqRead"
  /\ Continue(d, t, IF t.id \in Range(queue[d])
                    THEN [t EXCEPT !.pc = "live", !.returned = ~AwaitsRemote(t.kind)]
                    ELSE [t EXCEPT !.pc = "enqWrite", !.ids = queue[d]])
  /\ UNCHANGED <<store, queue, mem, loading, auth, resolving, sbUserId, isSyncing,
                 lastSyncAt, sync, calls, failed, remote, now, pureCall, acctStore, acctMem>>

\* addPendingDelete wrote the queue; deleteRemoteTransaction is issued and
\* the entry point returns
EnqWrite(d, t) ==
  /\ t.pc = "enqWrite"
  /\ queue' = [queue EXCEPT ![d] = EnqueueInto(t.ids, t.id)]
  /\ Continue(d, t, [t EXCEPT !.pc = "live", !.ids = <<>>,
                                 !.returned = ~AwaitsRemote(t.kind)])
  /\ UNCHANGED <<store, mem, loading, auth, resolving, sbUserId, isSyncing,
                 lastSyncAt, sync, calls, failed, remote, now, pureCall, acctStore, acctMem>>

\* what follows deleteRemoteTransaction: it resolves on either outcome, so
\* the then-callback runs and reads the queue
AfterLiveDeleteRejecting(o) == IF o = "fail" THEN "rejected" ELSE "cRead"

AfterLiveDelete(o) == "cRead"

\* deleteRemoteTransaction comes back
LiveDelete(d, t, cs) ==
  /\ t.pc = "live"
  /\ \E o \in cs :
       /\ remote' = IF o = "ok" THEN DeleteRows(remote, {t.id}) ELSE remote
       /\ Continue(d, t, [t EXCEPT !.pc = AfterLiveDelete(o), !.live = o])
  /\ UNCHANGED <<store, queue, mem, loading, auth, resolving, sbUserId, isSyncing,
                 lastSyncAt, sync, calls, failed, now, pureCall, acctStore, acctMem>>

\* the then-callback: getPendingDeletes came back, clearPendingDeletes is issued
CleanupRead(d, t) ==
  /\ t.pc = "cRead"
  /\ Continue(d, t, [t EXCEPT !.pc = "cClear", !.rest = Without(queue[d], t.id)])
  /\ UNCHANGED <<store, queue, mem, loading, auth, resolving, sbUserId, isSyncing,
                 lastSyncAt, sync, calls, failed, remote, now, pureCall, acctStore, acctMem>>

\* the loop over remaining: the next addPendingDelete, or the end
LoopOn(d, t, rest) ==
  IF rest = <<>> THEN Settle(d, t)
  ELSE /\ Continue(d, t, [t EXCEPT !.pc = "cAddRead", !.rest = rest, !.ids = <<>>])
       /\ UNCHANGED failed

\* clearPendingDeletes came back
CleanupClear(d, t) ==
  /\ t.pc = "cClear"
  /\ queue' = [queue EXCEPT ![d] = <<>>]
  /\ LoopOn(d, t, t.rest)
  /\ UNCHANGED <<store, mem, loading, auth, resolving, sbUserId, isSyncing,
                 lastSyncAt, sync, calls, remote, now, pureCall, acctStore, acctMem>>

\* addPendingDelete(remaining_id) read the queue
CleanupAddRead(d, t) ==
  /\ t.pc = "cAddRead"
  /\ IF Head(t.rest) \in Range(queue[d]) THEN LoopOn(d, t, Tail(t.rest))
     ELSE /\ Continue(d, t, [t EXCEPT !.pc = "cAddWrite", !.ids = queue[d]])
          /\ UNCHANGED failed
  /\ UNCHANGED <<store, queue, mem, loading, auth, resolving, sbUserId, isSyncing,
                 lastSyncAt, sync, calls, remote, now, pureCall, acctStore, acctMem>>

\* addPendingDelete(remaining_id) wrote the queue
CleanupAddWrite(d, t) ==
  /\ t.pc = "cAddWrite"
  /\ queue' = [queue EXCEPT ![d] = EnqueueInto(t.ids, Head(t.rest))]
  /\ LoopOn(d, t, Tail(t.rest))
  /\ UNCHANGED <<store, mem, loading, auth, resolving, sbUserId, isSyncing,
                 lastSyncAt, sync, calls, remote, now, pureCall, acctStore, acctMem>>

\* --------------------------------------------- removeAccount ----

\* accounts.filter(a => a.id !== id)
AccountsWithout(accounts, id) == SelectSeq(accounts, LAMBDA a : a.id # id)

\* transactions.filter(t => t.accountId !== id && t.toAccountId !== id)
UnlinkedFromSourceOnly(txs, id) == SelectSeq(txs, LAMBDA t : t.accountId # id)

UnlinkedFrom(txs, id) ==
  SelectSeq(txs, LAMBDA t : t.accountId # id /\ t.toAccountId # id)

\* removeAccount(id) of a listed account, up to the read of the accounts
\* document inside deleteAccount
RemoveAccount(d) ==
  \E i \in 1..Len(acctMem[d]) :
    Invoke(d, [NewTask EXCEPT !.kind = "removeAccount", !.pc = "acctWrite",
                              !.id = acctMem[d][i].id,
                              !.accounts = acctStore[d]])

\* deleteAccount wrote the accounts document; getTransactions is issued
AcctWrite(d, t) ==
  /\ t.pc = "acctWrite"
  /\ acctStore' = [acctStore EXCEPT ![d] = AccountsWithout(t.accounts, t.id)]
  /\ Continue(d, t, [t EXCEPT !.pc = "acctTxRead", !.accounts = <<>>])
  /\ UNCHANGED <<store, queue, mem, loading, auth, resolving, sbUserId, isSyncing,
                 lastSyncAt, sync, calls, failed, remote, now, pureCall, acctMem>>

\* getTransactions came back; the write of the filtered list is issued
AcctTxRead(d, t) ==
  /\ t.pc = "acctTxRead"
  /\ Continue(d, t, [t EXCEPT !.pc = "acctTxWrite", !.txs = store[d]])
  /\ UNCHANGED <<store, queue, mem, loading, auth, resolving, sbUserId, isSyncing,
                 lastSyncAt, sync, calls, failed, remote, now, pureCall,
                 acctStore, acctMem>>

\* deleteAccount wrote the transactions document; DELETE_ACCOUNT
AcctTxWrite(d, t) ==
  /\ t.pc = "acctTxWrite"
  /\ store' = [store EXCEPT ![d] = UnlinkedFrom(t.txs, t.id)]
  /\ mem' = [mem EXCEPT ![d] = UnlinkedFrom(@, t.id)]
  /\ acctMem' = [acctMem EXCEPT ![d] = AccountsWithout(@, t.id)]
  /\ SettleWith(d, t, "none")
  /\ UNCHANGED <<queue, loading, auth, resolving, sbUserId, isSyncing,
                 lastSyncAt, sync, calls, remote, now, pureCall, acctStore>>

AccountStep(d, t) == AcctWrite(d, t) \/ AcctTxRead(d, t) \/ AcctTxWrite(d, t)

\* ---------------------------------------------------- sessions ----

\* no entry point, no identity resolution and no pass is in flight
Quiescent(d) ==
  /\ ~loading[d] /\ resolving[d] = 0 /\ ~isSyncing[d] /\ tasks[d] = {}

\* the application is started again: AppProvider is constructed anew over
\* the documents AsyncStorage kept
Restart(d) ==
  /\ mem' = [mem EXCEPT ![d] = <<>>]
  /\ acctMem' = [acctMem EXCEPT ![d] = <<>>]
  /\ loading' = [loading EXCEPT ![d] = TRUE]
  /\ auth' = [auth EXCEPT ![d] = FALSE]
  /\ resolving' = [resolving EXCEPT ![d] = 0]
  /\ sbUserId' = [sbUserId EXCEPT ![d] = NoOwner]
  /\ isSyncing' = [isSyncing EXCEPT ![d] = FALSE]
  /\ lastSyncAt' = [lastSyncAt EXCEPT ![d] = 0]
  /\ sync' = [sync EXCEPT ![d] = IdleSync]
  /\ tasks' = [tasks EXCEPT ![d] = {}]
  /\ failed' = [failed EXCEPT ![d] = @ \ {NoOwnerYielded}]
  /\ UNCHANGED <<store, queue, calls, remote, now, pureCall, acctStore>>

\* every device right after construction, over the given documents
Constructed(stores, queues, table) ==
  /\ store = stores /\ queue = queues /\ remote = table
  /\ mem = [d \in Devices |-> <<>>]
  /\ acctStore = [d \in Devices |-> DEFAULT_ACCOUNTS]
  /\ acctMem = [d \in Devices |-> <<>>]
  /\ loading = [d \in Devices |-> TRUE]
  /\ auth = [d \in Devices |-> FALSE]
  /\ resolving = [d \in Devices |-> 0]
  /\ sbUserId = [d \in Devices |-> NoOwner]
  /\ isSyncing = [d \in Devices |-> FALSE]
  /\ lastSyncAt = [d \in Devices |-> 0]
  /\ sync = [d \in Devices |-> IdleSync]
  /\ tasks = [d \in Devices |-> {}]
  /\ calls = [d \in Devices |-> 0]
  /\ failed = [d \in Devices |-> {}]
  /\ now = StartMs
  /\ pureCall = NoMerge

OnlyA(x, empty) == [d \in Devices |-> IF d = "A" THEN x ELSE empty]

T1 == Transaction("t1", 50, 1)
T2 == Transaction("t2", 50, 1)
T1Edited == Transaction("t1", 75, 2)

BothRows == {toRow(T1, OwnerId), toRow(T2, OwnerId)}

\* what earlier sessions left on device A and at the remote: nothing; two
\* records never pushed; two records pushed; a removal still queued; a
\* record another device has edited since
Persisted ==
  {[store |-> <<>>, queue |-> <<>>, remote |-> {}],
   [store |-> <<T1, T2>>, queue |-> <<>>, remote |-> {}],
   [store |-> <<T1, T2>>, queue |-> <<>>, remote |-> BothRows],
   [store |-> <<T2>>, queue |-> <<"t1">>, remote |-> BothRows],
   [store |-> <<T1, T2>>, queue |-> <<>>,
    remote |-> {toRow(T1Edited, OwnerId), toRow(T2, OwnerId)}]}

SaveStep(d, t, cs) ==
  \/ SaveWrite(d, t) \/ Lookup(d, t) \/ Push(d, t, cs)

RemoveStep(d, t, cs) ==
  \/ DelWrite(d, t) \/ EnqRead(d, t) \/ EnqWrite(d, t) \/ LiveDelete(d, t, cs)
  \/ CleanupRead(d, t) \/ CleanupClear(d, t)
  \/ CleanupAddRead(d, t) \/ CleanupAddWrite(d, t)

SyncStep(d, cs) ==
  \/ SyncPush(d, cs) \/ SyncGetPending(d) \/ SyncDeleteBatch(d, cs)
  \/ SyncClear(d) \/ SyncFetch(d, cs) \/ SyncPersist(d)

\* one session of one device: every trigger and every transaction entry
\* point, the entry points invoked one after the other (SpecQueue overlaps them)
Init ==
  \E p \in Persisted :
    Constructed(OnlyA(p.store, <<>>), OnlyA(p.queue, <<>>), p.remote)

Next ==
  \/ LoadAll("A") \/ SignIn("A") \/ ResolveOwner("A", Transport)
  \/ (tasks["A"] = {} /\ Tick) \/ (tasks["A"] = {} /\ Foreground("A"))
  \/ (tasks["A"] = {} /\ AddTransaction("A"))
  \/ (tasks["A"] = {} /\ UpdateTransaction("A"))
  \/ (tasks["A"] = {} /\ RemoveTransaction("A"))
  \/ \E t \in tasks["A"] : SaveStep("A", t, Transport) \/ RemoveStep("A", t, Transport)
  \/ SyncStep("A", Transport)

Spec == Init /\ [][Next]_vars

\* one session of one device that has pushed before, in which transactions
\* are only removed: the removals, their background continuations and the
\* first sync pass
InitPushed ==
  \E p \in {q \in Persisted : q.remote # {}} :
    Constructed(OnlyA(p.store, <<>>), OnlyA(p.queue, <<>>), p.remote)

NextQueue ==
  \/ LoadAll("A") \/ SignIn("A") \/ ResolveOwner("A", Transport)
  \/ RemoveTransaction("A")
  \/ \E t \in tasks["A"] : RemoveStep("A", t, Transport)
  \/ SyncStep("A", Transport)

SpecQueue == InitPushed /\ [][NextQueue]_vars

\* the same session with at most MaxPassTasks removals in flight together
NextPass ==
  \/ LoadAll("A") \/ SignIn("A") \/ ResolveOwner("A", Transport)
  \/ (Cardinality(tasks["A"]) < MaxPassTasks /\ RemoveTransaction("A"))
  \/ \E t \in tasks["A"] : RemoveStep("A", t, Transport)
  \/ SyncStep("A", Transport)

SpecPass == InitPushed /\ [][NextPass]_vars

\* one session of one device whose passes meet a working transport and do
\* not overlap its removals: a removal is started while no pass runs, a pass
\* while no removal is in flight
NextSession ==
  \/ LoadAll("A") \/ SignIn("A")
  \/ (tasks["A"] = {} /\ ResolveOwner("A", {"ok"}))
  \/ Tick
  \/ (tasks["A"] = {} /\ Foreground("A"))
  \/ (~isSyncing["A"] /\ RemoveTransaction("A"))
  \/ \E t \in tasks["A"] : RemoveStep("A", t, Transport)
  \/ SyncStep("A", {"ok"})

SpecSession == InitPushed /\ [][NextSession]_vars

\* two devices of one owner, no local mutation, a working transport: each
\* device is started, syncs, and is started again
PersistedTwo ==
  {[a |-> <<T1>>, qa |-> <<>>, b |-> <<T1>>, remote |-> {toRow(T1, OwnerId)}],
   [a |-> <<T1>>, qa |-> <<>>, b |-> <<T1Edited>>,
    remote |-> {toRow(T1Edited, OwnerId)}],
   [a |-> <<T1, T2>>, qa |-> <<>>, b |-> <<>>, remote |-> {}],
   [a |-> <<T2>>, qa |-> <<"t1">>, b |-> <<T1, T2>>, remote |-> BothRows]}

InitTwo ==
  \E c \in PersistedTwo :
    Constructed([d \in Devices |-> IF d = "A" THEN c.a ELSE c.b],
                OnlyA(c.qa, <<>>), c.remote)

StartAgain(d) == Quiescent(d) /\ Restart(d)

NextTwo ==
  \E d \in Devices :
    \/ LoadAll(d) \/ SignIn(d) \/ ResolveOwner(d, {"ok"})
    \/ SyncStep(d, {"ok"})
    \/ StartAgain(d)

\* every call that was issued comes back, and every device is started again
FairTwo ==
  \A d \in Devices :
    /\ WF_vars(LoadAll(d)) /\ WF_vars(SignIn(d))
    /\ WF_vars(ResolveOwner(d, {"ok"}))
    /\ WF_vars(SyncStep(d, {"ok"}))
    /\ WF_vars(StartAgain(d))

SpecTwoFair == InitTwo /\ [][NextTwo]_vars /\ FairTwo

\* ------------------------------------- the pending-delete queue ----

\* the invocation t of device A and its background continuation finish in
\* this step
Finishes(t) == t \in tasks["A"] /\ \A u \in tasks'["A"] : u.n # t.n

\* the remote table still holds a row for the id: no remote delete of it
\* has taken effect
StillRemote(table, id) == \E r \in table : r.id = id

\* the pass of device A ends in this step with its persist
PassCompletes(d) == sync[d].pc = "persist" /\ sync'[d].pc = "idle"

\* C1: if removeTransaction(id) runs with an owner id known and its live
\* remote delete fails, then once the call and its background continuation
\* have finished, id is still in the pending-delete queue. (The row is
\* required to be still at the remote, so that no other delete of the id
\* accounts for its absence.)
C1_FailedDeleteStaysQueued ==
  [][\A t \in tasks["A"] :
       (t.kind = "remove" /\ t.live = "fail" /\ Finishes(t)
          /\ StillRemote(remote', t.id))
       => t.id \in Range(queue'["A"])]_vars

\* C2: an id leaves the queue only after a remote delete of it succeeded:
\* when the cleanup that follows a successful live delete finishes, every
\* other id that was queued, ids enqueued by interleaved removeTransaction
\* calls included, is still queued unless its row has left the remote.
C2_CleanupKeepsOthers ==
  [][\A t \in tasks["A"] :
       (t.kind = "remove" /\ t.live = "ok" /\ Finishes(t))
       => \A id \in Range(queue["A"]) \ {t.id} :
            StillRemote(remote', id) => id \in Range(queue'["A"])]_vars

C4_LateEnqueueSurvivesPass ==
  [][PassCompletes("A")
       => \A id \in Range(sync["A"].cleared) \ Range(sync["A"].pendingDeletes) :
            StillRemote(remote', id) => id \in Range(queue'["A"])]_vars

C6_RetryDeletesEverywhere ==
  [][PassCompletes("A")
       => \A f \in failed["A"] :
            f.kind = "remove"
            => /\ f.id \notin Range(queue'["A"])
               /\ ~StillRemote(remote', f.id)
               /\ f.id \notin IdsOf(store'["A"])]_vars

\* C7: when a pass completes against a working transport, for every id that
\* had a stored copy and a remote copy with different updatedAt values when
\* the pass started, the stored list and the remote table both hold the copy
\* with the greater updatedAt.
C7_PassKeepsNewerCopy ==
  [][PassCompletes("A")
       => \A l \in Range(sync["A"].localTx) :
            \A r \in sync["A"].remoteAtStart :
              (r.id = l.id /\ r.updated_at # l.updatedAt)
              => LET newer == IF l.updatedAt > r.updated_at THEN l ELSE fromRow(r)
                 IN /\ newer \in Range(store'["A"])
                    /\ toRow(newer, OwnerId) \in remote']_vars

\* C8: with two devices syncing under one owner id, no local mutation and
\* both devices completing pass after pass against a working transport, the
\* two stored lists eventually hold the same records for good.
C8_DevicesConverge ==
  <>[](Range(store["A"]) = Range(store["B"]))

\* ----------------------------------------- the merge engine, applied ----

MergeArgs ==
  UNION {[1..k -> AllTx] \X SeqsUpTo(AllTx, MergeMaxTotal - k) : k \in 0..MergeMaxTotal}

\* nothing else runs while the function is applied
Quiet ==
  /\ store = [d \in Devices |-> <<>>] /\ queue = [d \in Devices |-> <<>>]
  /\ remote = {} /\ now = StartMs
  /\ mem = [d \in Devices |-> <<>>]
  /\ acctStore = [d \in Devices |-> DEFAULT_ACCOUNTS]
  /\ acctMem = [d \in Devices |-> <<>>]
  /\ loading = [d \in Devices |-> TRUE]
  /\ auth = [d \in Devices |-> FALSE]
  /\ resolving = [d \in Devices |-> 0]
  /\ sbUserId = [d \in Devices |-> NoOwner]
  /\ isSyncing = [d \in Devices |-> FALSE]
  /\ lastSyncAt = [d \in Devices |-> 0]
  /\ sync = [d \in Devices |-> IdleSync]
  /\ tasks = [d \in Devices |-> {}]
  /\ calls = [d \in Devices |-> 0]
  /\ failed = [d \in Devices |-> {}]

InitMerge ==
  /\ Quiet
  /\ \E a \in MergeArgs :
       pureCall = [local |-> a[1], remote |-> a[2], returned |-> FALSE, result |-> <<>>]

CallMerge ==
  /\ ~pureCall.returned
  /\ pureCall' = [pureCall EXCEPT
       !.returned = TRUE,
       !.result = mergeTransactions(pureCall.local, pureCall.remote)]
  /\ UNCHANGED deviceVars

NextMerge == CallMerge

SpecMerge == InitMerge /\ [][NextMerge]_vars

\* the records of a list that carry the given id
WithId(txs, id) == {i \in 1..Len(txs) : txs[i].id = id}

\* both arguments are one-element lists holding the same id
OnePair ==
  /\ Len(pureCall.local) = 1 /\ Len(pureCall.remote) = 1
  /\ pureCall.local[1].id = pureCall.remote[1].id

\* C9: for two one-element lists holding the same id with update
\* timestamps T1 < T2, the merge result is exactly the T2 record, whether
\* the local or the remote argument held it.
C9_LastWriterWins ==
  (pureCall.returned /\ OnePair
     /\ pureCall.local[1].updatedAt # pureCall.remote[1].updatedAt)
  => LET l == pureCall.local[1]
         r == pureCall.remote[1]
         newer == IF l.updatedAt > r.updatedAt THEN l ELSE r
     IN pureCall.result = <<newer>>

C9_Witness_LocalNewer ==
  /\ pureCall.returned /\ OnePair
  /\ pureCall.local[1].updatedAt > pureCall.remote[1].updatedAt
  /\ pureCall.local[1].amount # pureCall.remote[1].amount
  /\ pureCall.result = <<pureCall.local[1]>>

\* C10: when a local and a remote record share an id and have equal update
\* timestamps but different field values, the result holds exactly one
\* record for that id and it is the remote argument's record.
C10_TieFavoursRemote ==
  pureCall.returned =>
    \A i \in 1..Len(pureCall.local), j \in 1..Len(pureCall.remote) :
      LET l == pureCall.local[i]
          r == pureCall.remote[j]
      IN (/\ l.id = r.id /\ l.updatedAt = r.updatedAt /\ l # r
          /\ Cardinality(WithId(pureCall.local, l.id)) = 1
          /\ Cardinality(WithId(pureCall.remote, r.id)) = 1)
         => /\ Cardinality(WithId(pureCall.result, r.id)) = 1
            /\ \E k \in 1..Len(pureCall.result) : pureCall.result[k] = r

C10_Witness_Tie ==
  /\ pureCall.returned /\ OnePair
  /\ pureCall.local[1].updatedAt = pureCall.remote[1].updatedAt
  /\ pureCall.local[1].amount # pureCall.remote[1].amount
  /\ pureCall.result = <<pureCall.remote[1]>>

\* the lists the stored document and the remote table can hold: no id twice
UniqueLists(S) ==
  {l \in SeqsUpTo(S, Cardinality(TxIds)) :
     \A i, j \in 1..Len(l) : i # j => l[i].id # l[j].id}

MergeCallOf(locals, remotes) ==
  /\ Quiet
  /\ \E l \in locals, r \in remotes :
       pureCall = [local |-> l, remote |-> r, returned |-> FALSE, result |-> <<>>]

\* mergeTransactions applied to two lists as the program holds them
InitMergeLists == MergeCallOf(UniqueLists(AllTx), UniqueLists(AllTx))

SpecMergeLists == InitMergeLists /\ [][NextMerge]_vars

\* mergeTransactions applied to lists in which records may lack updatedAt
InitMergeLegacy ==
  MergeCallOf(UniqueLists(AllTx \cup LegacyTx), UniqueLists(AllTx \cup LegacyTx))

SpecMergeLegacy == InitMergeLegacy /\ [][NextMerge]_vars

\* the records of a list that carry the given id, as a set
CopiesOf(txs, id) == {txs[i] : i \in WithId(txs, id)}

\* C11: for every transaction list L (no id twice, as the stored document
\* and the remote table hold them), mergeTransactions(L, L) holds the same
\* ids with the same field values as L, each once.
C11_MergeWithItself ==
  (pureCall.returned /\ pureCall.local = pureCall.remote)
  => /\ Range(pureCall.result) = Range(pureCall.local)
     /\ Len(pureCall.result) = Len(pureCall.local)

C11_Witness_TwoRecords ==
  /\ pureCall.returned /\ pureCall.local = pureCall.remote
  /\ Len(pureCall.local) = 2
  /\ Range(pureCall.result) = Range(pureCall.local)

\* C12: for all transaction lists A and B, mergeTransactions(A, B) and
\* mergeTransactions(B, A) hold the same record for every id, except for ids
\* whose two copies have exactly equal updatedAt.
C12_MergeCommutes ==
  pureCall.returned =>
    LET swapped == mergeTransactions(pureCall.remote, pureCall.local)
    IN \A id \in TxIds :
         (\A l \in CopiesOf(pureCall.local, id), r \in CopiesOf(pureCall.remote, id) :
            l.updatedAt # r.updatedAt)
         => CopiesOf(pureCall.result, id) = CopiesOf(swapped, id)

C12_Witness_OrderDiffers ==
  /\ pureCall.returned
  /\ \E id \in TxIds :
       \E l \in CopiesOf(pureCall.local, id), r \in CopiesOf(pureCall.remote, id) :
         /\ l.updatedAt > r.updatedAt /\ l.amount # r.amount
         /\ CopiesOf(pureCall.result, id) = {l}
  /\ pureCall.result # mergeTransactions(pureCall.remote, pureCall.local)

\* C13: in mergeTransactions a record that lacks updatedAt is never chosen
\* over a record of the same id that has one, whichever of the two is the
\* local and whichever the remote copy.
C13_StampedBeatsUnstamped ==
  pureCall.returned =>
    \A l \in Range(pureCall.local), r \in Range(pureCall.remote) :
      (l.id = r.id /\ (l.updatedAt = NoStamp) # (r.updatedAt = NoStamp))
      => CopiesOf(pureCall.result, l.id)
           = {IF l.updatedAt = NoStamp THEN r ELSE l}

\* ------------------------------------------------- guest mode ----

\* one session of one device in which no owner id is established: every
\* identity resolution yields null; the entry points overlap, and of their
\* steps the ones before the test of the owner id are there
NextGuest ==
  \/ LoadAll("A") \/ SignIn("A") \/ ResolveOwner("A", {"fail"})
  \/ AddTransaction("A") \/ UpdateTransaction("A") \/ RemoveTransaction("A")
  \/ \E t \in tasks["A"] : SaveWrite("A", t) \/ DelWrite("A", t)

SpecGuest == Init /\ [][NextGuest]_vars

\* the positions of an invocation at which only its local write is pending
LocalPcs == {"saveWrite", "delWrite"}

\* C14: while no owner id is established, no step of addTransaction,
\* updateTransaction or removeTransaction issues a remote call or changes the
\* queue of pending deletes: the remote table and the queue stay as they
\* are and every invocation in flight is at its local write
C14_GuestStaysLocal ==
  [][sbUserId'["A"] = NoOwner =>
       /\ queue' = queue
       /\ remote' = remote
       /\ \A t \in tasks'["A"] : t.pc \in LocalPcs]_vars

\* two removals have finished in guest mode: the local list is empty, the
\* rows pushed by an earlier session are still there and nothing is queued
C14_Witness_GuestRemovedBoth ==
  /\ sbUserId["A"] = NoOwner /\ ~loading["A"]
  /\ calls["A"] > 1 /\ tasks["A"] = {}
  /\ store["A"] = <<>> /\ remote = BothRows /\ queue["A"] = <<>>

\* --------------------------------------------------- the triggers ----

\* one session of one device without entry points: the load, the sign-in,
\* new user objects for the same identity, the foreground events and the
\* passes they start
NextTriggers ==
  \/ LoadAll("A") \/ SignIn("A") \/ UserChange("A")
  \/ ResolveOwner("A", Transport)
  \/ Tick \/ Foreground("A")
  \/ SyncStep("A", Transport)

SpecTriggers == Init /\ [][NextTriggers]_vars

\* the step starts a pass of device A: performSync got past its guard
PassStarts ==
  /\ sync'["A"].pc = "push"
  /\ sync'["A"] # sync["A"] \/ sync["A"].pc # "push"

\* C15: at most one pass is in flight: the flag is set exactly while a pass
\* is in flight, and a pass starts only when none is in flight, so a trigger
\* that arrives during a pass starts nothing, and the end of a pass, which
\* leaves the device idle, starts nothing either
C15_OnePassAtATime ==
  /\ [](isSyncing["A"] <=> sync["A"].pc # "idle")
  /\ [][PassStarts => ~isSyncing["A"] /\ sync["A"].pc = "idle"]_vars

\* a pass is in flight, past its push, at a time when the foreground test on
\* owner id and cooldown passes: a foreground event here is dropped
C15_Witness_TriggerDuringPass ==
  /\ isSyncing["A"] /\ sync["A"].pc \in {"getPending", "deleteBatch", "clear", "fetch", "persist"}
  /\ ForegroundSyncs("A")

\* C16: a pass that is started by something else than an identity
\* resolution coming back, which leaves the foreground event, starts with the
\* owner id known and at least the cooldown after the last completed pass
C16_ForegroundHonoursCooldown ==
  [][PassStarts /\ resolving'["A"] = resolving["A"] =>
       /\ sbUserId["A"] # NoOwner
       /\ now - lastSyncAt["A"] >= SYNC_COOLDOWN_MS]_vars

\* a pass has been started at least a cooldown after an earlier pass completed
C16_Witness_SecondPass ==
  /\ sync["A"].pc = "push" /\ resolving["A"] = 0
  /\ lastSyncAt["A"] > 0 /\ now - lastSyncAt["A"] >= SYNC_COOLDOWN_MS

\* C17: within a session upsertSupabaseUser is called only when no call of it
\* is in flight and no owner id is known, and a resolution that comes back
\* starts a pass only when no owner id was known before
C17_ResolvesOnce ==
  [][/\ resolving'["A"] > resolving["A"] =>
          resolving["A"] = 0 /\ sbUserId["A"] = NoOwner
     /\ resolving'["A"] < resolving["A"] /\ PassStarts =>
          sbUserId["A"] = NoOwner]_vars

\* C18: once an identity resolution has yielded no owner id, no further
\* resolution is started, no owner id appears and no pass is started
C18_GuestUntilRestart ==
  [][failed["A"] \cap {NoOwnerYielded} # {} =>
       /\ resolving'["A"] <= resolving["A"]
       /\ sbUserId'["A"] = NoOwner
       /\ ~PassStarts]_vars

\* C19: while the initial load has not completed, no identity resolution is
\* in flight or has come back and no pass is in flight
C19_NothingBeforeLoad ==
  loading["A"] =>
    /\ resolving["A"] = 0 /\ sbUserId["A"] = NoOwner
    /\ ~isSyncing["A"] /\ sync["A"] = IdleSync

\* the identity arrived while the load was still running, and nothing started
C19_Witness_SignedInWhileLoading ==
  loading["A"] /\ auth["A"] /\ resolving["A"] = 0

\* ------------------------------------------- the entry points ----

\* one session of one device with few invocations of the entry points, with
\* or without an owner id, next to a first sync pass that goes through
NextEntry ==
  \/ LoadAll("A") \/ SignIn("A") \/ ResolveOwner("A", Transport)
  \/ (calls["A"] < MaxEntryCalls /\ AddTransaction("A"))
  \/ (calls["A"] < MaxEntryCalls /\ UpdateTransaction("A"))
  \/ (calls["A"] < MaxEntryCalls /\ RemoveTransaction("A"))
  \/ \E t \in tasks["A"] : SaveStep("A", t, Transport) \/ RemoveStep("A", t, Transport)
  \/ SyncStep("A", {"ok"})

SpecEntry == Init /\ [][NextEntry]_vars

\* the positions of an invocation at which its remote call is in flight
RemotePcs == {"push", "live"}

\* the positions from which an invocation issues its remote call: its local
\* write, and for a removal the queue entry, are behind it
AfterLocalPcs == {"lookup", "enqRead", "enqWrite"}

\* C20: an invocation of addTransaction, updateTransaction or
\* removeTransaction issues its remote call only from a position after its
\* local write, never as its first step, and while the remote call is in
\* flight the entry point has already returned
C20_LocalFirstThenFireAndForget ==
  /\ [](\A t \in tasks["A"] : t.pc \in RemotePcs => t.returned)
  /\ [][\A t \in tasks'["A"] :
          t.pc \in RemotePcs =>
            \E u \in tasks["A"] :
              u.n = t.n /\ u.pc \in AfterLocalPcs \cup RemotePcs]_vars

\* a push is in flight: the record is in the local list already and the
\* remote table does not have it yet
C20_Witness_PushInFlight ==
  \E t \in tasks["A"] :
    /\ t.kind = "add" /\ t.pc = "push" /\ t.returned
    /\ t.tx \in Range(store["A"])
    /\ toRow(t.tx, OwnerId) \notin remote

\* ------------------------------------- the live remote delete ----

\* the invocation t of device A issues its live remote delete in this step
IssuesLiveDelete(t) ==
  /\ t.pc = "live"
  /\ \A u \in tasks["A"] : u.n = t.n => u.pc # "live"

\* C21: at the moment removeTransaction(id) issues its live remote delete,
\* id is stored in the queue of pending deletes
C21_QueuedBeforeLiveDelete ==
  [][\A t \in tasks'["A"] :
       IssuesLiveDelete(t) => t.id \in Range(queue'["A"])]_vars

\* a live remote delete is in flight for an id the queue holds, and the
\* remote table still has its row
C21_Witness_LiveDeleteInFlight ==
  \E t \in tasks["A"] :
    /\ t.pc = "live" /\ t.id \in Range(queue["A"])
    /\ StillRemote(remote, t.id)

\* ------------------------------------------------ a stuck pass ----

\* the steps of an invocation that wait for AsyncStorage only
StorageStep(d, t) ==
  \/ SaveWrite(d, t) \/ Lookup(d, t)
  \/ DelWrite(d, t) \/ EnqRead(d, t) \/ EnqWrite(d, t)

\* one session of one device whose first pass never gets its push back, so
\* it stays in flight for good, while entry points keep being invoked
NextStuck ==
  \/ LoadAll("A") \/ SignIn("A") \/ ResolveOwner("A", {"ok"})
  \/ (calls["A"] < MaxEntryCalls /\ AddTransaction("A"))
  \/ (calls["A"] < MaxEntryCalls /\ UpdateTransaction("A"))
  \/ (calls["A"] < MaxEntryCalls /\ RemoveTransaction("A"))
  \/ \E t \in tasks["A"] : SaveStep("A", t, Transport) \/ RemoveStep("A", t, Transport)

\* AsyncStorage answers every call; no remote call needs to come back
FairStuck == WF_vars(\E t \in tasks["A"] : StorageStep("A", t))

SpecStuckFair == Init /\ [][NextStuck]_vars /\ FairStuck

\* the invocation numbered n has not returned to its caller
Running(n) == \E t \in tasks["A"] : t.n = n /\ ~t.returned

\* the invocation t performs its local write in this step
WritesLocally(t) ==
  /\ t \in tasks["A"] /\ t.pc \in LocalPcs
  /\ \A u \in tasks'["A"] : u.n = t.n => u.pc \notin LocalPcs

\* C22: while a pass is in flight, every invocation of addTransaction,
\* updateTransaction and removeTransaction returns to its caller, whether or
\* not any remote call comes back, and its local write puts its change into
\* the stored list and the in-memory list
C22_StuckPassBlocksNoMutation ==
  /\ \A n \in 1..MaxCalls : (isSyncing["A"] /\ Running(n)) ~> ~Running(n)
  /\ [][\A t \in tasks["A"] :
          isSyncing["A"] /\ WritesLocally(t) =>
            IF t.kind = "remove"
            THEN t.id \notin IdsOf(store'["A"]) \cup IdsOf(mem'["A"])
            ELSE t.tx \in Range(store'["A"]) \cap Range(mem'["A"])]_vars

\* the pass read an empty list and is still waiting for its push; a record
\* added since is in both lists and its invocation has finished
C22_Witness_AddedDuringStuckPass ==
  /\ isSyncing["A"] /\ sync["A"].pc = "push" /\ sync["A"].localTx = <<>>
  /\ tasks["A"] = {} /\ store["A"] # <<>> /\ mem["A"] = store["A"]

\* -------------------------------------- a failing local write ----

\* one session of one device with few invocations of the entry points, in
\* which AsyncStorage may reject the write of the stored list, with or
\* without an owner id, next to a first pass that is waiting for its push
NextLocalFail ==
  \/ LoadAll("A") \/ SignIn("A") \/ ResolveOwner("A", Transport)
  \/ (calls["A"] < MaxEntryCalls /\ AddTransaction("A"))
  \/ (calls["A"] < MaxEntryCalls /\ UpdateTransaction("A"))
  \/ (calls["A"] < MaxEntryCalls /\ RemoveTransaction("A"))
  \/ \E t \in tasks["A"] :
       \/ LocalWriteFails("A", t)
       \/ SaveStep("A", t, Transport) \/ RemoveStep("A", t, Transport)

SpecLocalFail == Init /\ [][NextLocalFail]_vars

\* C23: an invocation whose local write failed has rejected and stays so,
\* which leaves it no position from which to enqueue or to call the remote
\* side; the step in which the write fails changes neither the in-memory
\* list nor the queue of pending deletes nor the remote table
C23_FailedWriteRejects ==
  [][\A t \in tasks'["A"] :
       t.local = "fail" =>
         /\ t.pc = "rejected" /\ t.returned
         /\ t \notin tasks["A"] =>
              mem' = mem /\ store' = store /\ queue' = queue /\ remote' = remote]_vars

\* with an owner id known a removal was rejected: the record is still listed
\* and stored, nothing is queued for it
C23_Witness_RemovalRejected ==
  \E t \in tasks["A"] :
    /\ t.kind = "remove" /\ t.local = "fail" /\ sbUserId["A"] # NoOwner
    /\ t.id \in IdsOf(mem["A"]) \cap IdsOf(store["A"])
    /\ t.id \notin Range(queue["A"])

\* -------------------------------------- a failing remote call ----

\* the invocation t goes on in this step, or finishes
Moves(t) == t \in tasks["A"] /\ t \notin tasks'["A"]

\* the remote call of the invocation t comes back failed in this step
RemoteCallFails(t) ==
  /\ Moves(t) /\ t.pc \in RemotePcs
  /\ \/ \E u \in tasks'["A"] : u.n = t.n /\ u.live = "fail"
     \/ /\ \A u \in tasks'["A"] : u.n # t.n
        /\ [kind |-> t.kind, id |-> t.id] \in failed'["A"] \ failed["A"]

\* C24: the step in which the remote call of an invocation comes back failed,
\* and every later step of that invocation, leaves the stored list and the
\* in-memory list as they are; the entry point had returned before, and the
\* invocation does not end rejected
C24_RemoteFailureStaysLocal ==
  [][\A t \in tasks["A"] :
       RemoteCallFails(t) \/ (Moves(t) /\ t.live = "fail") =>
         /\ store' = store /\ mem' = mem
         /\ t.returned
         /\ \A u \in tasks'["A"] : u.n = t.n => u.pc # "rejected"]_vars

\* the push of an added record failed: the record is stored and listed, the
\* remote table does not have it, the invocation has finished
C24_Witness_PushFailed ==
  \E tx \in AllTx :
    /\ [kind |-> "add", id |-> tx.id] \in failed["A"]
    /\ tx \in Range(store["A"]) \cap Range(mem["A"])
    /\ ~StillRemote(remote, tx.id)
    /\ tasks["A"] = {}

\* ------------------------------------------ pushes out of order ----

\* device A holds two records, both pushed, and nobody else has edited them
InitSynced == Constructed(OnlyA(<<T1, T2>>, <<>>), OnlyA(<<>>, <<>>), BothRows)

\* one session of one device in which records are only edited, each edit
\* after the push of the one before has been issued: the pushes are issued
\* in the order of the edits and may come back in any order
NextUpdates ==
  \/ LoadAll("A") \/ SignIn("A") \/ ResolveOwner("A", {"ok"})
  \/ ((\A t \in tasks["A"] : t.pc = "push") /\ UpdateTransaction("A"))
  \/ \E t \in tasks["A"] : SaveStep("A", t, Transport)

SpecUpdates == InitSynced /\ [][NextUpdates]_vars

\* C25: when the push of an edit comes back after the push of a later edit
\* of the same record, which carries a greater updatedAt, the remote row
\* keeps the copy with the greater updatedAt
C25_RemoteKeepsNewerPush ==
  [][\A t \in tasks["A"] :
       Moves(t) /\ t.pc = "push" =>
         \A r \in remote :
           r.id = t.id /\ r.updated_at > t.tx.updatedAt => r \in remote']_vars

\* ------------------------------------- overlapping entry points ----

\* one session of one device in which entry points overlap freely, with or
\* without an owner id; the first pass is waiting for its push
NextOverlap ==
  \/ LoadAll("A") \/ SignIn("A") \/ ResolveOwner("A", Transport)
  \/ AddTransaction("A") \/ UpdateTransaction("A") \/ RemoveTransaction("A")
  \/ \E t \in tasks["A"] : SaveStep("A", t, Transport) \/ RemoveStep("A", t, Transport)

SpecOverlap == Init /\ [][NextOverlap]_vars

\* the in-memory list txs shows the change of the invocation u
Shows(txs, u) ==
  IF u.kind = "remove" THEN u.id \notin IdsOf(txs) ELSE u.tx \in Range(txs)

\* C26: when an edit or a removal applies its change to the in-memory list
\* while an edit or a removal of the same id that was invoked after it has
\* applied its change already, the in-memory list goes on showing the change
\* of the one invoked later
C26_MemoryFollowsInvocationOrder ==
  [][\A t, u \in tasks["A"] :
       /\ WritesLocally(t) /\ t.kind # "add"
       /\ u.kind # "add" /\ u.id = t.id /\ u.n > t.n
       /\ u.pc \notin LocalPcs \cup {"rejected"}
       => Shows(mem'["A"], u)]_vars

\* C30: when an addTransaction has written the stored list while another
\* addTransaction, of another id, was in flight, and that one writes too,
\* the stored list holds the records of both
C30_OverlappingAddsBothStored ==
  [][\A t, u \in tasks["A"] :
       /\ WritesLocally(t) /\ t.kind = "add"
       /\ u.kind = "add" /\ u.id # t.id /\ u.pc \notin LocalPcs \cup {"rejected"}
       /\ u.tx \in Range(store["A"])
       => u.tx \in Range(store'["A"]) /\ t.tx \in Range(store'["A"])]_vars

\* --------------------------------------- computeAccountBalance ----

TransactionTypes == {"expense", "income", "transfer"}

\* the least number that is not exact any more when one is added to it
ExactLimit == 2 ^ SignificandBits

\* the amounts and initial balances the forms hand over: numbers that are
\* representable, below and at the limit of exact sums
PostedAmounts == {1, 2}
InitialBalances == {0, ExactLimit}

\* the transactions computeAccountBalance tells apart
Postings ==
  {[Transaction("t1", a, 1) EXCEPT !.type = ty, !.accountId = acc, !.toAccountId = to] :
     ty \in TransactionTypes, a \in PostedAmounts, acc \in AccountIds,
     to \in AccountIds \cup {Undefined}}

\* the distance between neighbouring representable numbers at magnitude a
RECURSIVE Spacing(_)
Spacing(a) == IF a < ExactLimit THEN 1 ELSE 2 * Spacing(a \div 2)

\* the result of a sum as a JS number: the exact sum rounded to the nearest
\* representable number, halfway cases to the even significand
Rounded(x) ==
  LET a == IF x < 0 THEN 0 - x ELSE x
      step == Spacing(a)
      q == a \div step
      r == a % step
      up == 2 * r > step \/ (2 * r = step /\ q % 2 = 1)
      m == (IF up THEN q + 1 ELSE q) * step
  IN IF x < 0 THEN 0 - m ELSE m

\* the body of the for loop: what one transaction does to the balance
ApplyOwnSideOnly(balance, account, tx) ==
  IF tx.accountId # account.id THEN balance
  ELSE IF tx.type = "income" THEN Rounded(balance + tx.amount)
  ELSE Rounded(balance - tx.amount)

Apply(balance, account, tx) ==
  IF tx.type = "expense" /\ tx.accountId = account.id
  THEN Rounded(balance - tx.amount)
  ELSE IF tx.type = "income" /\ tx.accountId = account.id
  THEN Rounded(balance + tx.amount)
  ELSE IF tx.type = "transfer"
  THEN LET out == IF tx.accountId = account.id
                  THEN Rounded(balance - tx.amount) ELSE balance
       IN IF tx.toAccountId = account.id THEN Rounded(out + tx.amount) ELSE out
  ELSE balance

\* the loop from the i-th transaction on
RECURSIVE BalanceFrom(_, _, _, _)
BalanceFrom(balance, account, txs, i) ==
  IF i > Len(txs) THEN balance
  ELSE BalanceFrom(Apply(balance, account, txs[i]), account, txs, i + 1)

computeAccountBalance(account, txs) ==
  BalanceFrom(account.initialBalance, account, txs, 1)

\* one call of computeAccountBalance with any account and any list
InitBalance ==
  /\ Quiet
  /\ \E id \in AccountIds, b \in InitialBalances, txs \in SeqsUpTo(Postings, MaxBalanceLen) :
       pureCall = [account |-> Account(id, b), transactions |-> txs,
                   returned |-> FALSE, result |-> 0]

CallBalance ==
  /\ ~pureCall.returned
  /\ pureCall' = [pureCall EXCEPT
       !.returned = TRUE,
       !.result = computeAccountBalance(pureCall.account, pureCall.transactions)]
  /\ UNCHANGED deviceVars

NextBalance == CallBalance

SpecBalance == InitBalance /\ [][NextBalance]_vars

\* what a transaction brings into the account: an income on it, a transfer
\* into it
Incoming(account, tx) ==
  IF \/ tx.type = "income" /\ tx.accountId = account.id
     \/ tx.type = "transfer" /\ tx.toAccountId = account.id
  THEN tx.amount ELSE 0

\* what a transaction takes out of the account: an expense on it, a transfer
\* out of it
Outgoing(account, tx) ==
  IF tx.type \in {"expense", "transfer"} /\ tx.accountId = account.id
  THEN tx.amount ELSE 0

\* the sum of f over the first n transactions, in exact arithmetic
RECURSIVE SumOver(_, _, _, _)
SumOver(f(_, _), account, txs, n) ==
  IF n = 0 THEN 0 ELSE SumOver(f, account, txs, n - 1) + f(account, txs[n])

ExpectedBalance(account, txs) ==
  account.initialBalance + SumOver(Incoming, account, txs, Len(txs))
                         - SumOver(Outgoing, account, txs, Len(txs))

\* the list in every order
Reorderings(txs) ==
  {[i \in 1..Len(txs) |-> txs[f[i]]] :
     f \in {g \in [1..Len(txs) -> 1..Len(txs)] :
              \A i, j \in 1..Len(txs) : i # j => g[i] # g[j]}}

\* no sum the loop can form, in whatever order, leaves the range in which
\* every integer is a number
StaysExact(account, txs) ==
  LET b == account.initialBalance
  IN (IF b < 0 THEN 0 - b ELSE b)
       + SumOver(Incoming, account, txs, Len(txs))
       + SumOver(Outgoing, account, txs, Len(txs)) <= ExactLimit

\* the call returned the expected balance, and would in every order
BalanceAsExpected ==
  /\ pureCall.result = ExpectedBalance(pureCall.account, pureCall.transactions)
  /\ \A l \in Reorderings(pureCall.transactions) :
       computeAccountBalance(pureCall.account, l) = pureCall.result

\* C27 as stated: for every account and every list, the balance is the
\* initial balance plus incomes and transfers in, minus expenses and
\* transfers out, in whatever order the list is
C27_BalanceForEveryList == pureCall.returned => BalanceAsExpected

\* C27 as amended: the same for integer amounts whose sums all stay in the
\* range of exact integers
C27_BalanceWhileExact ==
  pureCall.returned /\ StaysExact(pureCall.account, pureCall.transactions)
    => BalanceAsExpected

\* a transfer out of the account and a transfer into it, exact sums
C27_Witness_TransferOutAndIn ==
  /\ pureCall.returned /\ StaysExact(pureCall.account, pureCall.transactions)
  /\ Len(pureCall.transactions) = 2
  /\ pureCall.transactions[1].type = "transfer"
  /\ pureCall.transactions[1].accountId = pureCall.account.id
  /\ pureCall.transactions[1].toAccountId # pureCall.account.id
  /\ pureCall.transactions[2].type = "transfer"
  /\ pureCall.transactions[2].accountId # pureCall.account.id
  /\ pureCall.transactions[2].toAccountId = pureCall.account.id
  /\ pureCall.transactions[1].amount # pureCall.transactions[2].amount

\* ---------------------------- entry points during a sync pass ----

\* the record was written into the stored list after the pass of device A
\* read that list, and the remote table has no other copy of it that is as
\* new
WrittenSinceRead(tx) ==
  /\ tx \in Range(store["A"]) \cap Range(mem["A"])
  /\ tx \notin Range(sync["A"].localTx)
  /\ \A r \in remote :
       r.id = tx.id /\ r # toRow(tx, OwnerId) => r.updated_at < tx.updatedAt

\* C28: a record that addTransaction or updateTransaction wrote after the
\* pass read the stored list is in the stored list and in the in-memory list,
\* with its new values, when the pass has persisted its merge result
C28_PassKeepsLateWrite ==
  [][PassCompletes("A") =>
       \A tx \in AllTx :
         WrittenSinceRead(tx) =>
           tx \in Range(store'["A"]) \cap Range(mem'["A"])]_vars

\* the record was in the stored list when the pass of device A read it and
\* has been removed since
RemovedSinceRead(id) ==
  /\ id \in IdsOf(sync["A"].localTx)
  /\ id \notin IdsOf(store["A"]) \cup IdsOf(mem["A"])

\* C29: a record that removeTransaction removed after the pass read the
\* stored list is in neither the stored list nor the in-memory list when the
\* pass has persisted its merge result
C29_PassKeepsLateRemoval ==
  [][PassCompletes("A") =>
       \A id \in TxIds :
         RemovedSinceRead(id) =>
           id \notin IdsOf(store'["A"]) \cup IdsOf(mem'["A"])]_vars

\* ------------------------------------------- failures inside a pass ----

\* the rows pushTransactionsBatch builds from a list
RowsOf(txs) == {toRow(t, OwnerId) : t \in Range(txs)}

\* the batch push of the pass of device A comes back in this step and has
\* failed: rows of the list the pass read are not at the remote afterwards
BatchPushFails ==
  /\ sync["A"].pc = "push" /\ sync'["A"].pc # "push"
  /\ ~(RowsOf(sync["A"].localTx) \subseteq remote')

\* C31: if the batch push of a pass fails, the pass ends there: it issues no
\* read of the queue, no batch delete, no pull, no merge and no persist, the
\* in-flight flag is released, and the stored list and the pending-delete
\* queue are as they were
C31_FailedPushEndsPass ==
  [][BatchPushFails =>
       /\ sync'["A"].pc = "idle" /\ ~isSyncing'["A"]
       /\ store' = store /\ queue' = queue]_vars

\* C32: if the pull of a pass fails, fetchRemoteTransactions yields the empty
\* list, and the persist of that pass leaves the stored list with the content
\* the pass read at its start
C32_FailedPullKeepsLocal ==
  /\ [](sync["A"].pull = "fail" => sync["A"].remoteTx = <<>>)
  /\ [][PassCompletes("A") /\ sync["A"].pull = "fail" =>
          store'["A"] = sync["A"].localTx]_vars

\* the pull of a pass failed while the remote holds rows of the owner, the
\* pass read a list that is not empty, and its persist is in flight
C32_Witness_PullFailed ==
  /\ sync["A"].pc = "persist" /\ sync["A"].pull = "fail"
  /\ sync["A"].localTx # <<>>
  /\ \E r \in remote : r.user_id = OwnerId

\* ------------------------------------------- what a pass makes up for ----

\* the pass of device A read tx from the stored list, and the remote held no
\* row of its id when the pass started: the push of tx failed or was never
\* issued
NeverPushed(tx) ==
  /\ tx \in Range(sync["A"].localTx)
  /\ ~StillRemote(sync["A"].remoteAtStart, tx.id)

\* C33: a transaction whose own push failed or was never issued and that is
\* in the stored list is at the remote, with the same field values, once the
\* next pass has completed against a working transport
C33_PassPushesUnsynced ==
  [][PassCompletes("A") =>
       \A tx \in AllTx :
         NeverPushed(tx) /\ tx \in Range(store'["A"]) =>
           toRow(tx, OwnerId) \in remote']_vars

\* ------------------------------------------------ after a pass ----

\* a pass of device A has ended and none is in flight: the last one ran
\* through its persist, or its batch delete threw
PassEnded ==
  /\ sync["A"].pc = "idle"
  /\ lastSyncAt["A"] > 0 \/ sync["A"].batch = "fail"

\* a foreground event starts a pass here, and the pass starts from its
\* first step: it has read the stored list as it is now and issued the batch
\* push
ForegroundStartsPass ==
  ENABLED (/\ Foreground("A")
           /\ isSyncing'["A"]
           /\ sync'["A"].pc = "push"
           /\ sync'["A"].localTx = store["A"])

\* C34: once a pass has ended, by its persist or by a step that failed, the
\* in-flight flag is released, and the next trigger that passes the
\* listener's tests starts a new pass from the push step
C34_EndedPassReleasesGuard ==
  PassEnded =>
    /\ ~isSyncing["A"]
    /\ ForegroundSyncs("A") => ForegroundStartsPass

\* the batch delete of a pass threw, the pass ended there, and a foreground
\* event would pass the listener's tests
C34_Witness_AbortedPass ==
  /\ sync["A"].pc = "idle" /\ sync["A"].batch = "fail"
  /\ ForegroundSyncs("A")

\* ------------------------------------------ merge: the ids of the result ----

\* C35: for all input lists, lists that repeat an id included,
\* mergeTransactions returns every id that occurs in an input, each exactly
\* once, and no id that occurs in neither input
C35_MergeIdsOnce ==
  pureCall.returned =>
    /\ IdsOf(pureCall.result) = IdsOf(pureCall.local) \cup IdsOf(pureCall.remote)
    /\ \A id \in IdsOf(pureCall.result) :
         Cardinality(WithId(pureCall.result, id)) = 1

\* the function has returned on a local list that repeats an id the remote
\* list holds too
C35_Witness_RepeatedId ==
  /\ pureCall.returned
  /\ \E id \in TxIds :
       /\ Cardinality(WithId(pureCall.local, id)) > 1
       /\ WithId(pureCall.remote, id) # {}

\* ------------------------------------------------ removing an account ----

\* transactions of the two accounts: expenses of either, transfers either way
AccountTx ==
  {[Transaction(i, 50, 1) EXCEPT !.accountId = acc] : i \in TxIds, acc \in AccountIds}
  \cup
  {[Transaction(i, 50, 1) EXCEPT !.type = "transfer", !.accountId = p[1],
                                 !.toAccountId = p[2]] :
     i \in TxIds, p \in {q \in AccountIds \X AccountIds : q[1] # q[2]}}

\* device A over any stored list of them, pushed before or not, with the
\* removal of a transaction that is not listed any more still queued or not
InitAccounts ==
  \E l \in UniqueLists(AccountTx), pushed \in BOOLEAN :
    \E q \in {<<>>} \cup {<<id>> : id \in TxIds \ IdsOf(l)} :
      Constructed(OnlyA(l, <<>>), OnlyA(q, <<>>),
                  IF pushed THEN RowsOf(l) ELSE {})

\* one session in which accounts are removed: a removal is started while no
\* pass and no other removal is in flight, a pass while no removal is
NextAccounts ==
  \/ LoadAll("A") \/ SignIn("A")
  \/ (tasks["A"] = {} /\ ResolveOwner("A", {"ok"}))
  \/ (tasks["A"] = {} /\ ~isSyncing["A"] /\ RemoveAccount("A"))
  \/ \E t \in tasks["A"] : AccountStep("A", t)
  \/ SyncStep("A", {"ok"})

SpecAccounts == InitAccounts /\ [][NextAccounts]_vars

\* tx has the account as its source or its destination
Linked(tx, account) == tx.accountId = account \/ tx.toAccountId = account

\* the list after holds the records of the list before that are not linked
\* to the account, as they were, and nothing else
KeepsOthers(before, after, account) ==
  /\ \A tx \in Range(after) : ~Linked(tx, account)
  /\ Range(after) = {tx \in Range(before) : ~Linked(tx, account)}
  /\ Len(after) = Cardinality(Range(after))

\* C36: when removeAccount(a) has finished, no transaction of the stored
\* list or of the in-memory list has a as its source or its destination,
\* every other transaction is in both lists as it was, and from its
\* invocation to its end the pending-delete queue and the remote table are
\* as they were
C36_RemoveAccountCascadesLocally ==
  [][\A t \in tasks["A"] :
       t.kind = "removeAccount" =>
         /\ queue' = queue /\ remote' = remote
         /\ Finishes(t) =>
              /\ KeepsOthers(store["A"], store'["A"], t.id)
              /\ KeepsOthers(mem["A"], mem'["A"], t.id)]_vars

\* an account has been removed, a transaction of the other account is still
\* listed, and the remote still holds a row linked to the removed account
C36_Witness_RowsStayRemote ==
  /\ ~loading["A"] /\ tasks["A"] = {} /\ Len(acctMem["A"]) = 1
  /\ store["A"] # <<>> /\ mem["A"] = store["A"]
  /\ \E r \in remote :
       \/ r.account_id # acctMem["A"][1].id
       \/ r.to_account_id \notin {Null, acctMem["A"][1].id}

\* ------------------------------------------------ the lists of a device ----

\* no two records of the list carry the same id
NoIdTwice(txs) == \A i, j \in 1..Len(txs) : i # j => txs[i].id # txs[j].id

\* C37: in every reachable state neither the stored list nor the in-memory
\* list holds two records with the same id, however entry points and passes
\* interleave
C37_IdsUnique ==
  NoIdTwice(store["A"]) /\ NoIdTwice(mem["A"])

\* a pass has completed over two listed records whose ids the remote held
\* too, after an entry point had been invoked
C37_Witness_MergedAfterEntry ==
  /\ lastSyncAt["A"] > 0 /\ calls["A"] > 0
  /\ Len(store["A"]) = Cardinality(TxIds) /\ Len(mem["A"]) = Cardinality(TxIds)
  /\ \A id \in TxIds : StillRemote(remote, id)

\* the load has finished, and no entry point, no background continuation of
\* one and no pass is in flight on device A
AtRest == ~loading["A"] /\ tasks["A"] = {} /\ ~isSyncing["A"]

\* C38: whenever no entry point and no pass is in flight, the in-memory list
\* and the stored list hold the same ids with the same field values
C38_MemoryMatchesStoreAtRest ==
  AtRest => Range(mem["A"]) = Range(store["A"])

\* C39: a pass removes no record from the stored list: every id of the list
\* the pass read is in the stored list after its persist, also when the
\* remote holds no row of that id any more
C39_PassRemovesNothing ==
  [][PassCompletes("A") =>
       IdsOf(sync["A"].localTx) \subseteq IdsOf(store'["A"])]_vars

\* the persist of a pass is in flight whose pull went through and returned no
\* record for an id of the list the pass read
C39_Witness_GoneAtRemote ==
  /\ sync["A"].pc = "persist" /\ sync["A"].pull = "ok"
  /\ IdsOf(sync["A"].localTx) \ IdsOf(sync["A"].remoteTx) # {}

\* ------------------------------------------------ the last-sync time ----

\* the last pass of device A ended on its batch delete, which threw
PassAborted == sync["A"].pc = "idle" /\ sync["A"].batch = "fail"

====
